---- MODULE Spec2Model ----
(***************************************************************************)
(* State machine of the book catalogue client, src/src/App.jsx.            *)
(*                                                                         *)
(* The component's state hooks are the variables.  Every async handler     *)
(* (fetchBooks, handleSubmit, handleDelete) is a task that is suspended at *)
(* an await while its HTTP request is in flight; a task keeps the values   *)
(* of query and categoryFilter of the render in which its handler was      *)
(* created (the handler's closure), and the fetchBooks it calls after an   *)
(* await is the fetchBooks of that same render.                            *)
(*                                                                         *)
(* Free text (form fields, query, messages) is a TLA+ string; a category   *)
(* is a sequence of characters, because the code trims and sorts it.       *)
(***************************************************************************)
EXTENDS Integers, Sequences, FiniteSets, TLC

\* ------------------------------------------------------------------ bounds
\* async operations (tasks) suspended at an await at the same time
MaxInFlight == 2
\* user events (edits, clicks, submits) in one session
MaxEvents == 5

\* --------------------------------------------------------------- constants
Fields ==
  {"title", "author", "category", "description", "text_summary",
   "cover_image_url", "audio_summary_url"}

emptyForm == [f \in Fields |-> ""]

\* what the user types into a form field, and into the search field
FieldInputs == {"", "x"}
QueryInputs == {"", "dune"}

\* messages of the exceptions fetch() and res.json() reject with
NetMessages == {"Failed to fetch"}
ParseMessages == {"Unexpected end of JSON input"}
\* bodies of a non-success answer to POST /api/books
BodyTexts == {"", "title required"}

\* expandedId's null
Null == 0

\* the books the backend answers with: id and category (a book may lack one)
Book1 == [id |-> 1, category |-> <<"a">>]
Book2 == [id |-> 2, category |-> <<" ", "a">>]
Book3 == [id |-> 3]
Payloads == {<< >>, <<Book1>>, <<Book2, Book3>>}

\* ------------------------------------------------------- category strings
Code(c) == CASE c = " " -> 32 [] c = "A" -> 65 [] c = "a" -> 97

IsSpace(c) == c = " "

RECURSIVE TrimStart(_)
TrimStart(s) ==
  IF s = << >> THEN s
  ELSE IF IsSpace(Head(s)) THEN TrimStart(Tail(s)) ELSE s

RECURSIVE TrimEnd(_)
TrimEnd(s) ==
  IF s = << >> THEN s
  ELSE IF IsSpace(s[Len(s)]) THEN TrimEnd(SubSeq(s, 1, Len(s) - 1)) ELSE s

\* variant: the trailing whitespace is kept
TrimLeadingOnly(s) == TrimStart(s)

\* String.prototype.trim (line 75)
Trim(s) == TrimEnd(TrimStart(s))

\* a < b in the order of Array.prototype.sort(): by code unit, a prefix first
RECURSIVE StrLess(_, _)
StrLess(a, b) ==
  IF b = << >> THEN FALSE
  ELSE IF a = << >> THEN TRUE
  ELSE IF Code(Head(a)) # Code(Head(b)) THEN Code(Head(a)) < Code(Head(b))
  ELSE StrLess(Tail(a), Tail(b))

RECURSIVE SortStrings(_)
SortStrings(S) ==
  IF S = {} THEN << >>
  ELSE LET m == CHOOSE x \in S : \A y \in S : x = y \/ StrLess(x, y)
       IN  <<m>> \o SortStrings(S \ {m})

\* b.category || ''
CategoryOf(b) == IF "category" \in DOMAIN b THEN b.category ELSE << >>

categories(bs) ==
  SortStrings({Trim(CategoryOf(bs[i])) : i \in DOMAIN bs} \ {<< >>})

SeqToSet(s) == {s[i] : i \in DOMAIN s}

\* --------------------------------------------------------------- requests
\* variant: both keys are always set
ParamKeysAlways(q, cat) == {"q", "category"}

\* URLSearchParams: a key is set only when its value is truthy
ParamKeys(q, cat) ==
  (IF q # "" THEN {"q"} ELSE {}) \cup (IF cat # << >> THEN {"category"} ELSE {})

Params(q, cat) == [k \in ParamKeys(q, cat) |-> IF k = "q" THEN q ELSE cat]

GetRequest(q, cat) == [method |-> "GET", params |-> Params(q, cat)]
PostRequest(draft) == [method |-> "POST", body |-> draft]
DeleteRequest(id) == [method |-> "DELETE", id |-> id]

RemoveAt(s, i) == SubSeq(s, 1, i - 1) \o SubSeq(s, i + 1, Len(s))

VARIABLES
  form, loading, submitting, error, books, query, categoryFilter, expandedId,
  tasks,    \* the suspended async handlers, in the order their requests were issued
  cats,     \* the memoized categories (useMemo on books)
  arrived,  \* history: the payload of the successful list response that arrived last
  last,     \* history: what the last step was
  events    \* number of user events so far

session ==
  <<form, loading, submitting, error, books, query, categoryFilter, expandedId>>

vars ==
  <<form, loading, submitting, error, books, query, categoryFilter, expandedId,
    cats, tasks, arrived, last, events>>

\* a task: op is the handler, req the request it awaits, q and cat the query and
\* categoryFilter of its closure; overtaken records that a list request issued
\* after req has already completed
Task(op, req, q, cat) ==
  [op |-> op, req |-> req, q |-> q, cat |-> cat, overtaken |-> FALSE]

\* a step of the history: the event, the handler it belongs to, a flag (of a list
\* response: its request was overtaken; of a create response: the draft was edited
\* while the request was in flight) and the text delivered with a failure (the
\* response body or the exception's message)
Step(ev, op, flag, text) == [ev |-> ev, op |-> op, flag |-> flag, text |-> text]

ListInFlight == {i \in DOMAIN tasks : tasks[i].req.method = "GET"}

Init ==
  /\ form = emptyForm
  /\ submitting = FALSE
  /\ error = ""
  /\ books = << >>
  /\ query = ""
  /\ categoryFilter = << >>
  /\ expandedId = Null
  \* the mount effect has called fetchBooks
  /\ loading = TRUE
  /\ tasks = <<Task("list", GetRequest("", << >>), "", << >>)>>
  /\ cats = << >>
  /\ arrived = << >>
  /\ last = Step("mount", "list", FALSE, "")
  /\ events = 0

UserEvent ==
  /\ events < MaxEvents
  /\ events' = events + 1

\* ------------------------------------------------------- View/Form Layer
\* onChange of a form input (lines 113-145): setForm({ ...form, [f]: value })
SetFormField(f, v) ==
  /\ UserEvent
  /\ v # form[f]
  /\ form' = [form EXCEPT ![f] = v]
  /\ last' = Step("edit_form", "none", FALSE, "")
  /\ UNCHANGED <<loading, submitting, error, books, query, categoryFilter,
                 expandedId, tasks, arrived, cats>>

\* the Clear button (line 149): setForm(emptyForm)
ClearForm ==
  /\ UserEvent
  /\ form' = emptyForm
  /\ last' = Step("clear_form", "none", FALSE, "")
  /\ UNCHANGED <<loading, submitting, error, books, query, categoryFilter,
                 expandedId, tasks, arrived, cats>>

\* onChange of the search input (line 159): setQuery(value)
SetQuery(v) ==
  /\ UserEvent
  /\ v # query
  /\ query' = v
  /\ last' = Step("edit_query", "none", FALSE, "")
  /\ UNCHANGED <<form, loading, submitting, error, books, categoryFilter,
                 expandedId, tasks, arrived, cats>>

\* the options of the category selector (lines 161-164)
CategoryOptions == {<< >>} \cup SeqToSet(cats)

\* variant: choosing a category also fetches the list
SetCategoryFilterAndFetch(c) ==
  /\ UserEvent
  /\ c # categoryFilter
  /\ Len(tasks) < MaxInFlight
  /\ categoryFilter' = c
  /\ loading' = TRUE
  /\ tasks' = Append(tasks, [op |-> "list",
                             req |-> [method |-> "GET",
                                      params |-> [k \in (IF query # "" THEN {"q"} ELSE {})
                                                         \cup (IF c # << >> THEN {"category"} ELSE {})
                                                    |-> IF k = "q" THEN query ELSE c]],
                             q |-> query, cat |-> c, overtaken |-> FALSE])
  /\ last' = [ev |-> "edit_category", op |-> "none", flag |-> FALSE, text |-> ""]
  /\ UNCHANGED <<form, submitting, error, books, query, expandedId, arrived, cats>>

\* onChange of the category selector (line 160): setCategoryFilter(value)
SetCategoryFilter(c) ==
  /\ UserEvent
  /\ c # categoryFilter
  /\ categoryFilter' = c
  /\ last' = Step("edit_category", "none", FALSE, "")
  /\ UNCHANGED <<form, loading, submitting, error, books, query, expandedId,
                 tasks, arrived, cats>>

\* the per-book buttons exist only while the list is rendered (lines 169-175)
Rendered(id) == ~loading /\ \E i \in DOMAIN books : books[i].id = id

\* variant: the button only expands
ExpandedAfterToggleNeverHides(cur, id) == id

\* expandedId===b.id?null:b.id (line 190)
ExpandedAfterToggle(cur, id) == IF cur = id THEN Null ELSE id

\* the Read/Hide button (line 190); the history keeps the id of the book and
\* whether another book was expanded
ToggleExpanded(id) ==
  /\ UserEvent
  /\ Rendered(id)
  /\ expandedId' = ExpandedAfterToggle(expandedId, id)
  /\ last' = Step("toggle", "none", expandedId # Null /\ expandedId # id, ToString(id))
  /\ UNCHANGED <<form, loading, submitting, error, books, query, categoryFilter,
                 tasks, arrived, cats>>

\* ------------------------------------------------------- Sync Controller
\* fetchBooks up to its await (lines 26-31), called from the current render by
\* the Search button (line 166) or the Enter key in the search field (line 159)
Search ==
  /\ UserEvent
  /\ Len(tasks) < MaxInFlight
  /\ loading' = TRUE
  /\ tasks' = Append(tasks, Task("list", GetRequest(query, categoryFilter),
                                 query, categoryFilter))
  /\ last' = Step("search", "list", FALSE, "")
  /\ UNCHANGED <<form, submitting, error, books, query, categoryFilter,
                 expandedId, arrived, cats>>

\* the list requests issued before request i are overtaken when i completes
MarkOvertaken(ts, i) ==
  [j \in DOMAIN ts |->
     IF j < i /\ ts[j].req.method = "GET"
     THEN [ts[j] EXCEPT !.overtaken = TRUE] ELSE ts[j]]

ListOutcomes == {"ok", "http_fail", "net_fail", "parse_fail"}

\* e.message in fetchBooks' catch (lines 32, 35-36)
ListFailureMessages(outcome) ==
  CASE outcome = "http_fail" -> {"Failed to load books"}
    [] outcome = "net_fail" -> NetMessages
    [] outcome = "parse_fail" -> ParseMessages
    [] OTHER -> {""}

\* variant: a failed fetch empties the list
BooksAfterListFailClears(outcome, data, bs) ==
  IF outcome = "ok" THEN data ELSE << >>

\* books after fetchBooks: setBooks(data) is reached only without a throw
BooksAfterList(outcome, data, bs) ==
  IF outcome = "ok" THEN data ELSE bs

\* variant: a successful fetch clears the error
ErrorAfterListOkClears(outcome, msg, err) ==
  IF outcome = "ok" THEN "" ELSE msg

\* error after fetchBooks: setError only in the catch
ErrorAfterList(outcome, msg, err) ==
  IF outcome = "ok" THEN err ELSE msg

\* variant: the memo has no dependency and is never recomputed
MemoCategoriesStale(bs, old) == old

\* useMemo(..., [books]) (lines 74-77): recomputed in the render after setBooks
MemoCategories(bs, old) == categories(bs)

\* variant: the response of a request that a later one has overtaken is dropped
ListResponseLatestOnly(i, outcome) ==
  /\ tasks[i].req.method = "GET"
  /\ \E data \in (IF outcome = "ok" THEN Payloads ELSE {<< >>}),
        msg \in ListFailureMessages(outcome) :
       /\ books' = IF tasks[i].overtaken THEN books
                   ELSE BooksAfterList(outcome, data, books)
       /\ cats' = MemoCategories(books', cats)
       /\ arrived' = IF outcome = "ok" THEN data ELSE arrived
       /\ error' = ErrorAfterList(outcome, msg, error)
       /\ last' = Step("list_" \o outcome, tasks[i].op, tasks[i].overtaken, msg)
  /\ loading' = FALSE
  /\ submitting' = IF tasks[i].op = "submit" THEN FALSE ELSE submitting
  /\ tasks' = RemoveAt(MarkOvertaken(tasks, i), i)
  /\ UNCHANGED <<form, query, categoryFilter, expandedId, events>>

\* fetchBooks from its await to its end (lines 31-39), and the end of the
\* handler that awaited it (lines 69-71 of handleSubmit, line 83 of handleDelete);
\* payloads are the lists the backend may answer with
\* variant: the finally of handleSubmit is not reached after the list fetch
SubmittingAfterListStuck(op, cur) == cur

\* the submitting flag once a list fetch has settled: the fetch awaited by
\* handleSubmit (line 66) lets its finally run (lines 69-71)
SubmittingAfterList(op, cur) == IF op = "submit" THEN FALSE ELSE cur

\* variant: the finally of fetchBooks is skipped when the fetch fails
LoadingAfterListNoFinally(outcome, cur) == IF outcome = "ok" THEN FALSE ELSE cur

\* the loading flag once a list fetch has settled: the finally (lines 37-39)
\* runs after the try and after the catch
LoadingAfterList(outcome, cur) == FALSE

\* variant: an expanded entry that is not in the new list is collapsed
ExpandedAfterListPruned(cur, bs) ==
  IF \E i \in DOMAIN bs : bs[i].id = cur THEN cur ELSE Null

\* the expanded entry once a list fetch has settled: fetchBooks sets books,
\* error and loading only (lines 25-40)
ExpandedAfterList(cur, bs) == cur

ListDelivery(i, outcome, payloads) ==
  /\ tasks[i].req.method = "GET"
  /\ \E data \in (IF outcome = "ok" THEN payloads ELSE {<< >>}),
        msg \in ListFailureMessages(outcome) :
       /\ books' = BooksAfterList(outcome, data, books)
       /\ cats' = MemoCategories(books', cats)
       /\ arrived' = IF outcome = "ok" THEN data ELSE arrived
       /\ error' = ErrorAfterList(outcome, msg, error)
       /\ last' = Step("list_" \o outcome, tasks[i].op, tasks[i].overtaken, msg)
  /\ loading' = LoadingAfterList(outcome, loading)
  /\ submitting' = SubmittingAfterList(tasks[i].op, submitting)
  /\ expandedId' = ExpandedAfterList(expandedId, books')
  /\ tasks' = RemoveAt(MarkOvertaken(tasks, i), i)
  /\ UNCHANGED <<form, query, categoryFilter, events>>

ListResponse(i, outcome) == ListDelivery(i, outcome, Payloads)

\* variant: the category is not validated
ValidWithoutCategory(draft) ==
  draft["title"] # "" /\ draft["author"] # ""

\* the validation of handleSubmit (line 53)
Valid(draft) ==
  draft["title"] # "" /\ draft["author"] # "" /\ draft["category"] # ""

\* handleSubmit up to its await (lines 47-60); the Add Book button is disabled
\* while submitting (line 150)
HandleSubmit ==
  /\ UserEvent
  /\ ~submitting
  /\ IF ~Valid(form)
     THEN /\ error' = "Please fill title, author and category"
          /\ submitting' = FALSE
          /\ tasks' = tasks
          /\ last' = Step("submit_invalid", "submit", FALSE, "")
     ELSE /\ Len(tasks) < MaxInFlight
          /\ error' = ""
          /\ submitting' = TRUE
          /\ tasks' = Append(tasks, Task("submit", PostRequest(form),
                                         query, categoryFilter))
          /\ last' = Step("submit_sent", "submit", FALSE, "")
  /\ UNCHANGED <<form, loading, books, query, categoryFilter, expandedId, arrived, cats>>

CreateOutcomes == {"ok", "http_fail", "net_fail"}

\* what a failed create delivers: the response's body text, or the exception's message
CreateFailureTexts(outcome) ==
  CASE outcome = "http_fail" -> BodyTexts
    [] outcome = "net_fail" -> NetMessages
    [] OTHER -> {""}

\* variant: the response body is not used
CreateErrorMessageFallbackOnly(outcome, text) ==
  IF outcome = "http_fail" THEN "Failed to add book" ELSE text

\* e.message in handleSubmit's catch (lines 61-64, 67-68)
CreateErrorMessage(outcome, text) ==
  IF outcome = "http_fail"
  THEN (IF text # "" THEN text ELSE "Failed to add book")
  ELSE text

\* variant: the draft is kept after a successful create
FormAfterCreateKept(draft) == draft

\* the draft after a successful create (line 65)
FormAfterCreate(draft) == emptyForm

\* variant: the list fetch is not awaited, the finally runs at once
SubmittingAfterCreateNoAwait(outcome, cur) == FALSE

\* the submitting flag when the create call settles: a failure reaches the
\* finally (lines 67-71), a success first awaits fetchBooks (line 66)
SubmittingAfterCreate(outcome, cur) == IF outcome = "ok" THEN cur ELSE FALSE

\* handleSubmit from its await (lines 56-71); on success it calls the fetchBooks
\* of its own render, which runs up to its await (lines 26-31)
CreateResponse(i, outcome) ==
  /\ tasks[i].req.method = "POST"
  /\ \E text \in CreateFailureTexts(outcome) :
       /\ last' = Step("create_" \o outcome, "submit", tasks[i].req.body # form, text)
       /\ IF outcome = "ok"
          THEN /\ form' = FormAfterCreate(form)
               /\ loading' = TRUE
               /\ tasks' = Append(RemoveAt(tasks, i),
                                  Task("submit", GetRequest(tasks[i].q, tasks[i].cat),
                                       tasks[i].q, tasks[i].cat))
               /\ UNCHANGED error
          ELSE /\ error' = CreateErrorMessage(outcome, text)
               /\ tasks' = RemoveAt(tasks, i)
               /\ UNCHANGED <<form, loading>>
  /\ submitting' = SubmittingAfterCreate(outcome, submitting)
  /\ UNCHANGED <<books, query, categoryFilter, expandedId, arrived, cats, events>>

\* variant: the answer to the confirmation is ignored
ProceedsAnyway(answer) == TRUE

\* the destructive-action guard (line 80): if (!confirm(...)) return
Proceeds(answer) == answer

\* handleDelete up to its await (lines 79-82); confirm() blocks the page, so
\* the answer is part of the same step; the history keeps the id of a sent delete
HandleDelete(id, answer) ==
  /\ UserEvent
  /\ Rendered(id)
  /\ IF Proceeds(answer)
     THEN /\ Len(tasks) < MaxInFlight
          /\ tasks' = Append(tasks, Task("delete", DeleteRequest(id),
                                         query, categoryFilter))
     ELSE /\ tasks' = tasks
  /\ last' = Step(IF answer THEN "delete_sent" ELSE "delete_declined",
                  "delete", FALSE, IF answer THEN ToString(id) ELSE "")
  /\ UNCHANGED <<form, loading, submitting, error, books, query, categoryFilter,
                 expandedId, arrived, cats>>

DeleteOutcomes == {"ok", "http_fail", "net_fail"}

\* variant: a non-success status throws, as it does in fetchBooks
DeleteResponseChecksStatus(i, outcome) ==
  /\ tasks[i].req.method = "DELETE"
  /\ IF outcome # "ok"
     THEN /\ error' = "Delete failed"
          /\ tasks' = RemoveAt(tasks, i)
          /\ UNCHANGED loading
     ELSE /\ loading' = TRUE
          /\ tasks' = Append(RemoveAt(tasks, i),
                             Task("delete", GetRequest(tasks[i].q, tasks[i].cat),
                                  tasks[i].q, tasks[i].cat))
          /\ UNCHANGED error
  /\ last' = Step("delete_" \o outcome, "delete", FALSE, "")
  /\ UNCHANGED <<form, submitting, books, query, categoryFilter, expandedId,
                 arrived, cats, events>>

\* handleDelete from its await (lines 82-86): the response's status is not
\* looked at; only a rejected fetch reaches the catch
DeleteResponse(i, outcome) ==
  /\ tasks[i].req.method = "DELETE"
  /\ IF outcome = "net_fail"
     THEN /\ error' = "Delete failed"
          /\ tasks' = RemoveAt(tasks, i)
          /\ UNCHANGED loading
     ELSE /\ loading' = TRUE
          /\ tasks' = Append(RemoveAt(tasks, i),
                             Task("delete", GetRequest(tasks[i].q, tasks[i].cat),
                                  tasks[i].q, tasks[i].cat))
          /\ UNCHANGED error
  /\ last' = Step("delete_" \o outcome, "delete", FALSE, "")
  /\ UNCHANGED <<form, submitting, books, query, categoryFilter, expandedId,
                 arrived, cats, events>>

\* the ids of the books shown
ShownIds == {books[i].id : i \in DOMAIN books}

Next ==
  \/ \E f \in Fields, v \in FieldInputs : SetFormField(f, v)
  \/ ClearForm
  \/ \E v \in QueryInputs : SetQuery(v)
  \/ \E c \in CategoryOptions : SetCategoryFilter(c)
  \/ \E id \in ShownIds : ToggleExpanded(id)
  \/ Search
  \/ \E i \in DOMAIN tasks, outcome \in ListOutcomes : ListResponse(i, outcome)
  \/ HandleSubmit
  \/ \E i \in DOMAIN tasks, outcome \in CreateOutcomes : CreateResponse(i, outcome)
  \/ \E id \in ShownIds, answer \in BOOLEAN : HandleDelete(id, answer)
  \/ \E i \in DOMAIN tasks, outcome \in DeleteOutcomes : DeleteResponse(i, outcome)

Spec == Init /\ [][Next]_vars

\* a request in flight is answered: its promise settles and the handler resumes
Responses ==
  \/ \E i \in DOMAIN tasks, outcome \in ListOutcomes : ListResponse(i, outcome)
  \/ \E i \in DOMAIN tasks, outcome \in CreateOutcomes : CreateResponse(i, outcome)
  \/ \E i \in DOMAIN tasks, outcome \in DeleteOutcomes : DeleteResponse(i, outcome)

\* every request is answered in the end; the user's events are finitely many
SpecFair == Spec /\ WF_vars(Responses)

\* ---------------------------------------------- the categories of any list
\* the initial load answered with any list of up to MaxBooks books whose
\* categories are drawn from CategoryStrings (0: the book has no category)
MaxBooks == 3

CategoryStrings ==
  << << >>, <<" ">>, <<"a">>, <<"A">>, <<" ", "a">>, <<"a", " ">>,
     <<"a", "A">>, <<"A", "a">>, <<"a", " ", "a">>, <<" ", "A", " ">> >>

BookList(n, f) ==
  [i \in 1..n |-> IF f[i] = 0 THEN [id |-> i]
                  ELSE [id |-> i, category |-> CategoryStrings[f[i]]]]

CategoryLists ==
  UNION {{BookList(n, f) : f \in [1..n -> 0..Len(CategoryStrings)]} : n \in 0..MaxBooks}

NextCategories ==
  \E i \in DOMAIN tasks, outcome \in ListOutcomes : ListDelivery(i, outcome, CategoryLists)

SpecCategories == Init /\ [][NextCategories]_vars

\* ================================================================= claims
\* the step is a call of handleSubmit
SubmitStep == last'.ev \in {"submit_invalid", "submit_sent"} /\ events' = events + 1

RequiredFilled == form["title"] # "" /\ form["author"] # "" /\ form["category"] # ""

\* the request the step has just issued
Issued == tasks'[Len(tasks')].req

\* C1: the list fetch that follows a successful create or a confirmed delete is
\* issued with the query and the category filter that are current when the
\* mutation's response arrives.
C1_RefreshUsesCurrentFilters ==
  [][last'.ev \in {"create_ok", "delete_ok", "delete_http_fail"}
       => Issued = [method |-> "GET",
                    params |-> [k \in (IF query # "" THEN {"q"} ELSE {}) \cup
                                     (IF categoryFilter # << >> THEN {"category"} ELSE {})
                                  |-> IF k = "q" THEN query ELSE categoryFilter]]]_vars

\* C2: submitting a draft whose title, author or category is empty issues no
\* request at all and leaves a non-empty validation message as the error.
C2_InvalidDraftNoRequest ==
  [][SubmitStep /\ ~RequiredFilled
       => /\ tasks' = tasks
          /\ error' = "Please fill title, author and category"
          /\ error' # ""]_vars

C2_Witness ==
  /\ last.ev = "submit_invalid"
  /\ form["title"] = "x" /\ form["author"] = "x" /\ form["category"] = ""
  /\ error = "Please fill title, author and category"
  /\ \A i \in DOMAIN tasks : tasks[i].req.method # "POST"

\* C3: submitting a draft with title, author and category filled issues exactly
\* one request, a create whose payload is the draft at that moment; when the create
\* succeeds the draft is reset to all-empty values, also after edits in flight.
C3_CreatePayloadAndReset ==
  [][/\ SubmitStep /\ RequiredFilled
          => /\ Len(tasks') = Len(tasks) + 1
             /\ SubSeq(tasks', 1, Len(tasks)) = tasks
             /\ Issued = [method |-> "POST", body |-> form]
     /\ last'.ev = "create_ok" => form' = [f \in Fields |-> ""]]_vars

C3_Witness ==
  /\ last.ev = "create_ok"
  /\ last.flag
  /\ form = [f \in Fields |-> ""]
  /\ \E i \in DOMAIN tasks : tasks[i].op = "submit" /\ tasks[i].req.method = "GET"

\* C4: a list fetch that fails by a non-success answer or a network rejection
\* leaves the book list as it was, sets the error to the failure's description and
\* sets the loading flag to false.
C4_ListFailureKeepsList ==
  [][last'.ev \in {"list_http_fail", "list_net_fail"}
       => /\ books' = books
          /\ loading' = FALSE
          /\ error' = IF last'.ev = "list_http_fail"
                      THEN "Failed to load books" ELSE last'.text
          /\ last'.ev = "list_net_fail" => last'.text \in NetMessages]_vars

C4_Witness ==
  /\ last.ev = "list_net_fail"
  /\ books # << >>
  /\ ~loading
  /\ error \in NetMessages

\* C5: a create answered with a non-success status sets the error to the body
\* text if that is non-empty and to 'Failed to add book' otherwise, leaves the
\* draft as it was and issues no list fetch.
C5_CreateFailureMessage ==
  [][last'.ev = "create_http_fail"
       => /\ error' = IF last'.text # "" THEN last'.text ELSE "Failed to add book"
          /\ form' = form
          /\ loading' = loading
          /\ Len(tasks') < Len(tasks)
          /\ SeqToSet(tasks') \subseteq SeqToSet(tasks)]_vars

C5_Witness ==
  /\ last.ev = "create_http_fail"
  /\ last.text = "title required"
  /\ error = "title required"
  /\ RequiredFilled
  /\ tasks = << >>

\* C6: declining the confirmation makes handleDelete a no-op: no request is
\* issued and no piece of the session state changes.
C6_DeclinedDeleteNoOp ==
  [][last'.ev = "delete_declined" => UNCHANGED <<session, tasks>>]_vars

C6_Witness ==
  /\ last.ev = "delete_declined"
  /\ books # << >>
  /\ tasks = << >>

\* C7: a confirmed delete whose delete call fails, by a non-success status or by
\* a network rejection, sets the error to 'Delete failed'.
C7_DeleteFailureMessage ==
  [][last'.ev \in {"delete_http_fail", "delete_net_fail"}
       => error' = "Delete failed"]_vars

\* C8: the book list always equals the payload of the successful list response
\* that arrived last, whatever the order the overlapping requests were issued in,
\* and only the arrival of a successful list response changes the list.
C8_LastArrivalWins ==
  /\ [](books = arrived)
  /\ [][books' # books => last'.ev = "list_ok"]_vars

C8_Witness ==
  /\ last.ev = "list_ok"
  /\ last.flag
  /\ books = arrived
  /\ books # << >>

\* C9: the loading flag is true whenever at least one list fetch is in flight.
C9_LoadingWhileFetching ==
  (\E i \in DOMAIN tasks : tasks[i].req.method = "GET") => loading

\* the message of the failure a step ends with
FailureMessage(step) ==
  CASE step.ev = "submit_invalid" -> "Please fill title, author and category"
    [] step.ev = "create_http_fail" ->
         (IF step.text # "" THEN step.text ELSE "Failed to add book")
    [] step.ev = "list_http_fail" -> "Failed to load books"
    [] step.ev = "delete_net_fail" -> "Delete failed"
    [] OTHER -> step.text

FailureEvents ==
  {"submit_invalid", "create_http_fail", "create_net_fail", "list_http_fail",
   "list_net_fail", "list_parse_fail", "delete_net_fail"}

\* C10: the error changes only when an operation fails, to that failure's
\* message, or when a create request is sent, to the empty string; a successful
\* list fetch and a successful delete leave it as it was.
C10_ErrorChangesOnlyOnFailureOrCreate ==
  [][/\ error' # error
          => \/ last'.ev \in FailureEvents /\ error' = FailureMessage(last')
             \/ last'.ev = "submit_sent" /\ error' = ""
     /\ last'.ev \in {"list_ok", "delete_ok"} => error' = error]_vars

C10_Witness ==
  /\ last.ev = "list_ok"
  /\ error # ""
  /\ books # << >>

\* C11: at most one book is expanded: expandedId is null or one book id, and at
\* most one shown book has it; the toggle of book B makes B the expanded book
\* when B was not expanded (also when another book A was) and leaves none
\* expanded when B was.
C11_AtMostOneExpanded ==
  /\ [](/\ \/ expandedId = Null
            \/ \E p \in Payloads : \E i \in DOMAIN p : p[i].id = expandedId
         /\ Cardinality({i \in DOMAIN books : books[i].id = expandedId}) <= 1)
  /\ [][last'.ev = "toggle" /\ events' = events + 1
          => \A i \in DOMAIN books :
               ToString(books[i].id) = last'.text
                 => /\ expandedId = books[i].id => expandedId' = Null
                    /\ expandedId # books[i].id => expandedId' = books[i].id]_vars

C11_Witness ==
  /\ last.ev = "toggle"
  /\ last.flag
  /\ expandedId # Null
  /\ ToString(expandedId) = last.text

\* the order of the characters, and the lexicographic order it gives
Rank(c) == CASE c = " " -> 0 [] c = "A" -> 1 [] c = "a" -> 2

LexLess(a, b) ==
  \E k \in 1..Len(b) :
    /\ k - 1 <= Len(a)
    /\ \A m \in 1..(k - 1) : a[m] = b[m]
    /\ \/ k = Len(a) + 1
       \/ k <= Len(a) /\ Rank(a[k]) < Rank(b[k])

\* s without its leading and trailing spaces
Trimmed(s) ==
  LET ns == {i \in DOMAIN s : s[i] # " "}
  IN  IF ns = {} THEN << >>
      ELSE SubSeq(s, CHOOSE i \in ns : \A j \in ns : i <= j,
                     CHOOSE i \in ns : \A j \in ns : i >= j)

\* C12: the category options are the trimmed categories of the books of the
\* current list whose trimmed category is non-empty (a missing one counts as
\* empty; case is kept), each once, in lexicographic order.
C12_CategoriesSortedDistinctTrimmed ==
  /\ {cats[i] : i \in DOMAIN cats} =
       {Trimmed(IF "category" \in DOMAIN books[i] THEN books[i].category ELSE << >>) :
          i \in DOMAIN books} \ {<< >>}
  /\ \A i \in DOMAIN cats : \A j \in DOMAIN cats : i < j => LexLess(cats[i], cats[j])

C12_Witness ==
  /\ Len(books) = 3
  /\ \A i \in DOMAIN books : "category" \in DOMAIN books[i]
  /\ books[1].category = <<"a", " ">>
  /\ books[2].category = <<"a">>
  /\ books[3].category = <<"A">>
  /\ cats = << <<"A">>, <<"a">> >>

\* the list requests in flight in a sequence of tasks
Gets(ts) == {i \in DOMAIN ts : ts[i].req.method = "GET"}

\* the step has issued the list request of the delete handler
DeleteRefetched ==
  /\ Len(tasks') > 0
  /\ tasks'[Len(tasks')].op = "delete"
  /\ tasks'[Len(tasks')].req.method = "GET"
  /\ Cardinality(Gets(tasks')) = Cardinality(Gets(tasks)) + 1

\* the step of a confirmed delete has issued the delete request for the book's id
DeleteIssued ==
  /\ Len(tasks') = Len(tasks) + 1
  /\ Issued.method = "DELETE"
  /\ ToString(Issued.id) = last'.text
  /\ \E i \in DOMAIN books : books[i].id = Issued.id

\* C13 as stated: a confirmed delete issues the delete request for that id, and
\* the list is fetched again after every outcome of the delete call: a success
\* status, a failure status, or the failure of the call itself.
C13_RefetchAfterEveryOutcome ==
  [][/\ last'.ev = "delete_sent" /\ events' = events + 1 => DeleteIssued
     /\ last'.ev \in {"delete_ok", "delete_http_fail", "delete_net_fail"}
          => DeleteRefetched]_vars

\* C13 as amended: a confirmed delete issues the delete request for that id; the
\* list is fetched again whenever the delete call is answered, whatever the
\* status; when the call itself fails no list fetch is issued and the error is
\* 'Delete failed'.
C13_RefetchAfterAnyAnswer ==
  [][/\ last'.ev = "delete_sent" /\ events' = events + 1 => DeleteIssued
     /\ last'.ev \in {"delete_ok", "delete_http_fail"} => DeleteRefetched /\ loading'
     /\ last'.ev = "delete_net_fail"
          => /\ Len(tasks') < Len(tasks)
             /\ {tasks'[i] : i \in DOMAIN tasks'} \subseteq {tasks[i] : i \in DOMAIN tasks}
             /\ loading' = loading
             /\ error' = "Delete failed"]_vars

C13_Witness ==
  /\ last.ev = "delete_http_fail"
  /\ loading
  /\ \E i \in DOMAIN tasks : tasks[i].op = "delete" /\ tasks[i].req.method = "GET"

\* C14: a list request carries q exactly when the query used for it is
\* non-empty and category exactly when the category filter used for it is
\* non-empty, each with that value; Search uses the current query and filter, and
\* the request of the initial load carries neither.
C14_ListRequestParams ==
  /\ \A i \in DOMAIN tasks :
       tasks[i].req.method = "GET"
         => LET p == tasks[i].req.params
            IN  /\ DOMAIN p \subseteq {"q", "category"}
                /\ "q" \in DOMAIN p <=> tasks[i].q # ""
                /\ "q" \in DOMAIN p => p["q"] = tasks[i].q
                /\ "category" \in DOMAIN p <=> tasks[i].cat # << >>
                /\ "category" \in DOMAIN p => p["category"] = tasks[i].cat
  /\ last.ev = "search"
       => tasks[Len(tasks)].q = query /\ tasks[Len(tasks)].cat = categoryFilter
  /\ last.ev = "mount"
       => Len(tasks) = 1 /\ tasks[1].req.method = "GET" /\ DOMAIN tasks[1].req.params = {}

C14_Witness ==
  /\ last.ev = "search"
  /\ tasks[Len(tasks)].req.params = [q |-> "dune", category |-> <<"a">>]

\* C15: an edit of the search text or of the category selector issues no
\* request and changes neither the list, the loading flag nor the error; a list
\* fetch is started only by Search (button or Enter) or by the refresh after a
\* create or a delete (the initial load is the one in flight at the start).
C15_EditsStartNoFetch ==
  [][/\ query' # query \/ categoryFilter' # categoryFilter
          => UNCHANGED <<tasks, books, loading, error>>
     /\ Cardinality(Gets(tasks')) > Cardinality(Gets(tasks))
          => last'.ev \in {"search", "create_ok", "delete_ok", "delete_http_fail"}]_vars

C15_Witness ==
  /\ last.ev = "edit_category"
  /\ categoryFilter # << >>
  /\ tasks = << >>
  /\ ~loading

\* the list fetch awaited by handleSubmit is in flight
SubmitFetchInFlight ==
  \E i \in DOMAIN tasks : tasks[i].op = "submit" /\ tasks[i].req.method = "GET"

ListFailures == {"list_http_fail", "list_net_fail", "list_parse_fail"}

\* C16: submitting is true in every state in which a create request is in
\* flight (it is true exactly while a handleSubmit is suspended), and it is
\* false once the create has finished: by a validation failure, a backend
\* failure, a network failure, or a success followed by its list fetch.
C16_SubmittingWhileCreating ==
  /\ [](submitting <=> \E i \in DOMAIN tasks : tasks[i].op = "submit")
  /\ [][/\ last'.ev = "submit_invalid" /\ events' = events + 1 => ~submitting'
        /\ last'.ev \in {"create_http_fail", "create_net_fail"} => ~submitting'
        /\ last'.op = "submit" /\ last'.ev \in ListFailures \cup {"list_ok"}
             => ~submitting']_vars

C16_Witness ==
  /\ last.ev = "list_ok"
  /\ last.op = "submit"
  /\ ~submitting
  /\ tasks = << >>

\* C17: a successful create clears the draft and leaves submitting true, and
\* submitting stays true while the follow-up list fetch is in flight; when that
\* fetch fails, the failure leaves the draft and the book list as they were and
\* the error is the list failure's message.
C17_CreateOkThenListFailure ==
  /\ [](SubmitFetchInFlight => submitting)
  /\ [][/\ last'.ev = "create_ok"
             => form' = emptyForm /\ submitting' /\ error' = error
        /\ last'.op = "submit" /\ last'.ev \in ListFailures
             => /\ form' = form
                /\ books' = books
                /\ ~submitting'
                /\ last'.ev = "list_http_fail" => error' = "Failed to load books"
                /\ last'.ev = "list_net_fail" => error' \in NetMessages
                /\ last'.ev = "list_parse_fail" => error' \in ParseMessages]_vars

C17_Witness ==
  /\ last.ev = "list_http_fail"
  /\ last.op = "submit"
  /\ form = emptyForm
  /\ error = "Failed to load books"
  /\ ~submitting

\* C18: only the Read/Hide toggle changes the expanded entry; list fetches,
\* creates and deletes leave it as it was, so it can name a book that the
\* refreshed list no longer holds.
C18_OnlyToggleChangesExpanded ==
  [][expandedId' # expandedId => last'.ev = "toggle" /\ events' = events + 1]_vars

C18_Witness ==
  /\ last.ev = "list_ok"
  /\ last.op = "delete"
  /\ expandedId # Null
  /\ expandedId \notin ShownIds

Idle == tasks = << >> /\ ~loading /\ ~submitting

\* C19: when every request is answered in the end (by a success, a failure
\* status or a rejection) and the user stops acting, the page ends up with no
\* request in flight and with loading and submitting both false, and stays so;
\* whenever no request is in flight no busy flag is true.
C19_EventuallyIdle ==
  /\ <>[]Idle
  /\ [](tasks = << >> => ~loading /\ ~submitting)

C19_Witness ==
  /\ last.ev = "list_parse_fail"
  /\ last.op = "submit"
  /\ Idle
====
